---- MODULE Spec2Model ----
(***************************************************************************)
(* RGB++ lock script (contracts/rgbpp-lock/src/main.rs).                   *)
(*                                                                         *)
(* One run of the script validates one spend: it parses its own lock       *)
(* arguments, loads the CKB transaction and the configuration, resolves    *)
(* the unlock witness, parses the Bitcoin transaction carried by the       *)
(* witness, verifies the unlock (seal, light client, commitment) and       *)
(* finally scans the outputs.  The model follows the script statement by   *)
(* statement; the data read from the host is drawn when it is read.        *)
(*                                                                         *)
(* Byte strings are sequences of numbers 0..255.  An optional value is a   *)
(* sequence of length 0 (None) or 1 (Some).  SHA-256 is modelled as an     *)
(* injective constructor (no collisions).                                  *)
(***************************************************************************)
EXTENDS Integers, Sequences, FiniteSets, TLC

\* ------------------------------------------------------------------ bounds

\* Largest number of inputs / outputs of the CKB transaction.
MaxInputs == 2
MaxOutputs == 2
\* Largest number of inputs of the Bitcoin transaction.
MaxBtcInputs == 2

\* -------------------------------------------------------------- constants

\* Width of a Byte32 value.
HashLen == 32

\* ------------------------------------------------------------------- bytes

RECURSIVE to_le_bytes(_, _)
\* n.to_le_bytes() of a w-byte unsigned integer.
to_le_bytes(n, w) ==
    IF w = 0 THEN <<>> ELSE <<n % 256>> \o to_le_bytes(n \div 256, w - 1)

RECURSIVE from_le_bytes(_)
\* uN::from_le_bytes(bs)
from_le_bytes(bs) ==
    IF bs = <<>> THEN 0 ELSE Head(bs) + 256 * from_le_bytes(Tail(bs))

RECURSIVE Concat(_)
\* The concatenation of a sequence of byte strings.
Concat(ss) == IF ss = <<>> THEN <<>> ELSE Head(ss) \o Concat(Tail(ss))

\* A Byte32 whose first byte is n, the others 0.  Byte32_default is
\* Byte32::default(), the all-zero value.
Byte32_of(n) == [i \in 1..HashLen |-> IF i = 1 THEN n ELSE 0]
Byte32_default == [i \in 1..HashLen |-> 0]

\* ---------------------------------------------------------------- molecule

\* A molecule `Bytes` (fixvec of bytes): item count, then the items.
Bytes_pack(raw) == to_le_bytes(Len(raw), 4) \o raw

Bytes_verify(bs) ==
    /\ Len(bs) >= 4
    /\ from_le_bytes(SubSeq(bs, 1, 4)) = Len(bs) - 4

Bytes_raw_data(bs) == SubSeq(bs, 5, Len(bs))

RECURSIVE table_offsets(_, _)
\* The offsets of the fields of a table whose first field starts at `at`.
table_offsets(fields, at) ==
    IF fields = <<>> THEN <<>>
    ELSE to_le_bytes(at, 4) \o table_offsets(Tail(fields), at + Len(Head(fields)))

\* A molecule table: total size, one offset per field, the fields.
table_build(fields) ==
    LET header == 4 * (Len(fields) + 1)
        body == Concat(fields)
    IN  to_le_bytes(header + Len(body), 4) \o table_offsets(fields, header) \o body

\* Offset number i (1-based) read from the header of a table.
table_offset(bs, i) == from_le_bytes(SubSeq(bs, 4 * i + 1, 4 * i + 4))

\* The end of field i of a table of n fields.
table_field_end(bs, n, i) == IF i = n THEN Len(bs) ELSE table_offset(bs, i + 1)

\* Whether bs is a well-formed table of exactly n fields (n > 0).
table_verify(bs, n) ==
    /\ Len(bs) >= 4 * (n + 1)
    /\ from_le_bytes(SubSeq(bs, 1, 4)) = Len(bs)
    /\ table_offset(bs, 1) = 4 * (n + 1)
    /\ \A i \in 1..n : table_offset(bs, i) <= table_field_end(bs, n, i)

\* Field i of a verified table of n fields.
table_field(bs, n, i) == SubSeq(bs, table_offset(bs, i) + 1, table_field_end(bs, n, i))

\* Script { code_hash: Byte32, hash_type: byte, args: Bytes }
Script_as_slice(s) ==
    table_build(<< s.code_hash, <<s.hash_type>>, Bytes_pack(s.args) >>)

Script_verify(bs) ==
    /\ table_verify(bs, 3)
    /\ Len(table_field(bs, 3, 1)) = HashLen
    /\ Len(table_field(bs, 3, 2)) = 1
    /\ Bytes_verify(table_field(bs, 3, 3))

Script_from_slice(bs) ==
    [code_hash |-> table_field(bs, 3, 1),
     hash_type |-> table_field(bs, 3, 2)[1],
     args |-> Bytes_raw_data(table_field(bs, 3, 3))]

\* ScriptOpt: nothing, or the script.
ScriptOpt_as_slice(opt) == IF opt = <<>> THEN <<>> ELSE Script_as_slice(opt[1])

\* CellOutput { capacity: Uint64, lock: Script, type_: ScriptOpt }
CellOutput_as_slice(o) ==
    table_build(<< to_le_bytes(o.capacity, 8),
                   Script_as_slice(o.lock),
                   ScriptOpt_as_slice(o.type_) >>)

\* OutPoint { tx_hash: Byte32, index: Uint32 } (a struct: no header)
OutPoint_as_slice(p) == p.tx_hash \o to_le_bytes(p.index, 4)

\* ----------------------------------------------------------------- schemas

\* RGBPPLock { out_index: Uint32, btc_txid: Byte32 } (a struct: no header)
RGBPPLock_as_bytes(l) == to_le_bytes(l.out_index, 4) \o l.btc_txid

RGBPPLock_verify(bs) == Len(bs) = 4 + HashLen

RGBPPLock_from_slice(bs) ==
    [out_index |-> from_le_bytes(SubSeq(bs, 1, 4)),
     btc_txid |-> SubSeq(bs, 5, 4 + HashLen)]

\* BTCTimeLock { lock_script: Script, after: Uint32, btc_txid: Byte32 }
BTCTimeLock_as_bytes(l) ==
    table_build(<< Script_as_slice(l.lock_script), to_le_bytes(l.after, 4), l.btc_txid >>)

BTCTimeLock_verify(bs) ==
    /\ table_verify(bs, 3)
    /\ Script_verify(table_field(bs, 3, 1))
    /\ Len(table_field(bs, 3, 2)) = 4
    /\ Len(table_field(bs, 3, 3)) = HashLen

BTCTimeLock_from_slice(bs) ==
    [lock_script |-> Script_from_slice(table_field(bs, 3, 1)),
     after |-> from_le_bytes(table_field(bs, 3, 2)),
     btc_txid |-> table_field(bs, 3, 3)]

\* RGBPPUnlock { version: Uint16, extra_data: ExtraCommitmentData,
\*               btc_tx: Bytes, btc_tx_proof: Bytes }
\* ExtraCommitmentData { input_len: byte, output_len: byte }
RGBPPUnlock_as_bytes(u) ==
    table_build(<< to_le_bytes(u.version, 2),
                   <<u.extra_data.input_len, u.extra_data.output_len>>,
                   Bytes_pack(u.btc_tx),
                   Bytes_pack(u.btc_tx_proof) >>)

RGBPPUnlock_verify(bs) ==
    /\ table_verify(bs, 4)
    /\ Len(table_field(bs, 4, 1)) = 2
    /\ Len(table_field(bs, 4, 2)) = 2
    /\ Bytes_verify(table_field(bs, 4, 3))
    /\ Bytes_verify(table_field(bs, 4, 4))

RGBPPUnlock_from_slice(bs) ==
    [version |-> from_le_bytes(table_field(bs, 4, 1)),
     extra_data |-> [input_len |-> table_field(bs, 4, 2)[1],
                     output_len |-> table_field(bs, 4, 2)[2]],
     btc_tx |-> Bytes_raw_data(table_field(bs, 4, 3)),
     btc_tx_proof |-> Bytes_raw_data(table_field(bs, 4, 4))]

\* The value a failed call leaves in place of an RGBPPUnlock.
NullUnlock ==
    [version |-> 0, extra_data |-> [input_len |-> 0, output_len |-> 0],
     btc_tx |-> <<>>, btc_tx_proof |-> <<>>]

\* ------------------------------------------------------------------ errors

\* The error kinds, in the order of their numeric codes (the first is 1).
Errors ==
    << "IndexOutOfBound", "ItemMissing", "LengthNotEnough", "Encoding",
       "BadRGBPPLock", "BadRGBPPUnlock", "BadBTCTimeLock", "BadConfig",
       "BadBtcTx", "BtcTxNotFound", "UtxoSealMismatch", "BadBtcCommitment",
       "UnknownCommitmentVersion", "CommitmentMismatch",
       "OutputCellWithUnknownLock" >>

\* `err as i8`
ErrorCode(err) == CHOOSE i \in 1..Len(Errors) : Errors[i] = err

\* ------------------------------------------------------------ rgbpp_core

\* ScriptHashType::Type
HashTypeType == 1

\* Smallest `after` a time lock may carry.
MIN_BTC_TIME_LOCK_AFTER == 6

\* Two scripts run the same code: code hash and hash type agree, the
\* arguments are not looked at.
is_script_code_equal(a, b) ==
    a.code_hash = b.code_hash /\ a.hash_type = b.hash_type

\* The lock is the time lock the configuration names.
is_btc_time_lock(config, lock) ==
    lock.code_hash = config.btc_time_lock_type_hash /\ lock.hash_type = HashTypeType

\* The outpoint of the lock arguments is among the inputs of the Bitcoin
\* transaction.
check_utxo_seal(lock_args, btc_tx) ==
    \E i \in 1..Len(btc_tx.inputs) :
        btc_tx.inputs[i].previous_output = <<lock_args.btc_txid, lock_args.out_index>>

\* The transaction of the lock arguments is spent by the Bitcoin transaction
\* and the delay is at least min_lock.
check_btc_time_lock(lock_args, btc_tx, min_lock) ==
    /\ lock_args.after >= min_lock
    /\ \E i \in 1..Len(btc_tx.inputs) :
           btc_tx.inputs[i].previous_output[1] = lock_args.btc_txid

\* Sha256 of a byte string, and the value of a finalized hasher.
sha2(bytes) == [sha256 |-> bytes]

\* ---------------------------------------------------------------- witness

\* load_witness_args(index, source) on the witnesses the source selects:
\* the error of the load ("Ok" when there is none).
load_witness_args_err(ws, index) ==
    IF index >= Len(ws) THEN "IndexOutOfBound"
    ELSE IF ~ws[index + 1].wellformed THEN "Encoding"
    ELSE "Ok"

\* load_unlock(index, Source::Input)
load_unlock(ws, index) ==
    IF load_witness_args_err(ws, index) # "Ok"
    THEN [err |-> load_witness_args_err(ws, index), val |-> NullUnlock]
    ELSE LET lock == ws[index + 1].lock
         IN  IF lock = <<>> THEN [err |-> "ItemMissing", val |-> NullUnlock]
             ELSE IF ~RGBPPUnlock_verify(lock[1])
                  THEN [err |-> "BadRGBPPUnlock", val |-> NullUnlock]
                  ELSE [err |-> "Ok", val |-> RGBPPUnlock_from_slice(lock[1])]

\* fetch_unlock_from_witness with the index read relative to the script group
\* (Source::GroupInput in place of Source::Input).
fetch_unlock_group_relative(ws, group) ==
    IF load_witness_args_err(ws, group) # "Ok"
    THEN [err |-> load_witness_args_err(ws, group), val |-> NullUnlock]
    ELSE LET lock == ws[group + 1].lock
         IN  IF lock = <<>> THEN [err |-> "ItemMissing", val |-> NullUnlock]
             ELSE IF Len(lock[1]) = 4
                  THEN load_unlock(ws, group + from_le_bytes(lock[1]))
                  ELSE IF ~RGBPPUnlock_verify(lock[1])
                       THEN [err |-> "BadRGBPPUnlock", val |-> NullUnlock]
                       ELSE [err |-> "Ok", val |-> RGBPPUnlock_from_slice(lock[1])]

\* fetch_unlock_from_witness(): ws are the witnesses of the transaction, group
\* the index of the first input of the script group.
fetch_unlock_from_witness(ws, group) ==
    IF load_witness_args_err(ws, group) # "Ok"
    THEN [err |-> load_witness_args_err(ws, group), val |-> NullUnlock]
    ELSE LET lock == ws[group + 1].lock
         IN  IF lock = <<>> THEN [err |-> "ItemMissing", val |-> NullUnlock]
             ELSE IF Len(lock[1]) = 4
                  THEN load_unlock(ws, from_le_bytes(lock[1]))
                  ELSE IF ~RGBPPUnlock_verify(lock[1])
                       THEN [err |-> "BadRGBPPUnlock", val |-> NullUnlock]
                       ELSE [err |-> "Ok", val |-> RGBPPUnlock_from_slice(lock[1])]

\* ------------------------------------------------------------ verify_unlock

\* (lock_args.btc_txid(), lock_args.out_index().unpack())
expected_out_point(lock_args) == <<lock_args.btc_txid, lock_args.out_index>>

RECURSIVE is_found_txid_only(_, _)
\* is_found with only the txid of the previous output compared.
is_found_txid_only(inputs, expected) ==
    IF inputs = <<>> THEN FALSE
    ELSE IF Head(inputs).previous_output[1] = expected[1] THEN TRUE
    ELSE is_found_txid_only(Tail(inputs), expected)

RECURSIVE is_found(_, _)
\* btc_tx.inputs.iter().any(|txin| txin.previous_output == expected)
is_found(inputs, expected) ==
    IF inputs = <<>> THEN FALSE
    ELSE IF Head(inputs).previous_output = expected THEN TRUE
    ELSE is_found(Tail(inputs), expected)

\* ------------------------------------------------- check_btc_tx_commitment

Min(a, b) == IF a < b THEN a ELSE b

\* iter.skip(n)
skip(seq, n) == SubSeq(seq, n + 1, Len(seq))

\* iter.take(n)
take(seq, n) == SubSeq(seq, 1, Min(n, Len(seq)))

\* a.iter().zip(b.iter())
zip(a, b) == [i \in 1..Min(Len(a), Len(b)) |-> <<a[i], b[i]>>]

\* QueryIter(load_cell_type_hash, Source::Input).skip(input_len).all(is_none)
inputs_are_committed(type_hashes, input_len) ==
    \A i \in 1..Len(skip(type_hashes, input_len)) : skip(type_hashes, input_len)[i] = <<>>

\* outputs_are_committed with one output too many skipped.
outputs_are_committed_skip_one_more(outputs, output_len) ==
    \A i \in 1..Len(skip(outputs, output_len + 1)) :
        skip(outputs, output_len + 1)[i].type_ = <<>>

\* outputs().iter().skip(output_len).all(|output| output.type_().is_none())
outputs_are_committed(outputs, output_len) ==
    \A i \in 1..Len(skip(outputs, output_len)) : skip(outputs, output_len)[i].type_ = <<>>

\* The lock of a time-lock output with the btc_txid of its arguments zeroed.
normalize_btc_time_lock(lock) ==
    [lock EXCEPT !.args =
        BTCTimeLock_as_bytes(
            [BTCTimeLock_from_slice(lock.args) EXCEPT !.btc_txid = Byte32_default])]

\* normalize_rgbpp_lock with the btc_txid left as it is.
normalize_rgbpp_lock_keeps_txid(lock) ==
    [lock EXCEPT !.args = RGBPPLock_as_bytes(RGBPPLock_from_slice(lock.args))]

\* The lock of an RGB++ output with the btc_txid of its arguments zeroed.
normalize_rgbpp_lock(lock) ==
    [lock EXCEPT !.args =
        RGBPPLock_as_bytes(
            [RGBPPLock_from_slice(lock.args) EXCEPT !.btc_txid = Byte32_default])]

\* hash_output with the length of the data left out.
hash_output_no_data_len(config, rgbpp_script, output, data) ==
    IF is_btc_time_lock(config, output.lock)
    THEN IF ~BTCTimeLock_verify(output.lock.args)
         THEN [err |-> "BadBTCTimeLock", bytes |-> <<>>]
         ELSE [err |-> "Ok",
               bytes |-> CellOutput_as_slice(
                             [output EXCEPT !.lock = normalize_btc_time_lock(output.lock)])
                         \o data]
    ELSE IF is_script_code_equal(rgbpp_script, output.lock)
    THEN IF ~RGBPPLock_verify(output.lock.args)
         THEN [err |-> "BadRGBPPLock", bytes |-> <<>>]
         ELSE [err |-> "Ok",
               bytes |-> CellOutput_as_slice(
                             [output EXCEPT !.lock = normalize_rgbpp_lock(output.lock)])
                         \o data]
    ELSE [err |-> "Ok", bytes |-> CellOutput_as_slice(output) \o data]

\* What one turn of the output loop feeds to the hasher: the output, its lock
\* normalized, then the length of the data and the data.
hash_output(config, rgbpp_script, output, data) ==
    IF is_btc_time_lock(config, output.lock)
    THEN IF ~BTCTimeLock_verify(output.lock.args)
         THEN [err |-> "BadBTCTimeLock", bytes |-> <<>>]
         ELSE [err |-> "Ok",
               bytes |-> CellOutput_as_slice(
                             [output EXCEPT !.lock = normalize_btc_time_lock(output.lock)])
                         \o to_le_bytes(Len(data), 4) \o data]
    ELSE IF is_script_code_equal(rgbpp_script, output.lock)
    THEN IF ~RGBPPLock_verify(output.lock.args)
         THEN [err |-> "BadRGBPPLock", bytes |-> <<>>]
         ELSE [err |-> "Ok",
               bytes |-> CellOutput_as_slice(
                             [output EXCEPT !.lock = normalize_rgbpp_lock(output.lock)])
                         \o to_le_bytes(Len(data), 4) \o data]
    ELSE [err |-> "Ok",
          bytes |-> CellOutput_as_slice(output) \o to_le_bytes(Len(data), 4) \o data]

\* hash_outputs that stops after the first pair.
hash_outputs_first_only(config, rgbpp_script, pairs) ==
    IF pairs = <<>> THEN [err |-> "Ok", bytes |-> <<>>]
    ELSE hash_output(config, rgbpp_script, Head(pairs)[1], Head(pairs)[2])

RECURSIVE hash_outputs(_, _, _)
\* The output loop: the first error ends it.
hash_outputs(config, rgbpp_script, pairs) ==
    IF pairs = <<>> THEN [err |-> "Ok", bytes |-> <<>>]
    ELSE LET first == hash_output(config, rgbpp_script, Head(pairs)[1], Head(pairs)[2])
         IN  IF first.err # "Ok" THEN first
             ELSE LET rest == hash_outputs(config, rgbpp_script, Tail(pairs))
                  IN  IF rest.err # "Ok" THEN rest
                      ELSE [err |-> "Ok", bytes |-> first.bytes \o rest.bytes]

RECURSIVE hash_inputs(_)
\* The input loop: the previous output of each input.
hash_inputs(inputs) ==
    IF inputs = <<>> THEN <<>>
    ELSE OutPoint_as_slice(Head(inputs).previous_output) \o hash_inputs(Tail(inputs))

\* b"RGB++"
DomainTag == <<82, 71, 66, 43, 43>>

\* gen_commitment_stream with the two length bytes clamped to the numbers of
\* inputs and outputs.
gen_commitment_stream_clamped(config, rgbpp_script, tx, version, input_len, output_len) ==
    LET outs == hash_outputs(config, rgbpp_script,
                             take(zip(tx.outputs, tx.outputs_data), output_len))
    IN  IF outs.err # "Ok" THEN outs
        ELSE [err |-> "Ok",
              bytes |-> DomainTag \o to_le_bytes(version, 2)
                        \o <<Min(input_len, Len(tx.inputs)), Min(output_len, Len(tx.outputs))>>
                        \o hash_inputs(take(tx.inputs, input_len))
                        \o outs.bytes]

\* Everything the hasher is fed (step 3 of check_btc_tx_commitment), or the
\* error that ends the output loop.
gen_commitment_stream(config, rgbpp_script, tx, version, input_len, output_len) ==
    LET outs == hash_outputs(config, rgbpp_script,
                             take(zip(tx.outputs, tx.outputs_data), output_len))
    IN  IF outs.err # "Ok" THEN outs
        ELSE [err |-> "Ok",
              bytes |-> DomainTag \o to_le_bytes(version, 2) \o <<input_len, output_len>>
                        \o hash_inputs(take(tx.inputs, input_len))
                        \o outs.bytes]

\* bitcoin::sha2(&hasher.finalize())
double_sha256(stream) == sha2(sha2(stream))

\* ------------------------------------------------------------ verify_outputs

RECURSIVE verify_outputs_no_seal(_, _, _, _, _)
\* verify_outputs_from with the seal check of the RGB++ branch left out.
verify_outputs_no_seal(index, config, btc_tx, rgbpp_lock, outputs) ==
    IF index > Len(outputs) THEN "Ok"
    ELSE LET lock == outputs[index].lock
             next == verify_outputs_no_seal(index + 1, config, btc_tx, rgbpp_lock, outputs)
         IN  IF outputs[index].type_ = <<>> THEN next
             ELSE IF /\ is_script_code_equal(lock, rgbpp_lock)
                     /\ ~RGBPPLock_verify(lock.args)
                  THEN "BadRGBPPLock"
             ELSE IF is_script_code_equal(lock, rgbpp_lock) THEN next
             ELSE IF /\ is_btc_time_lock(config, lock)
                     /\ ~BTCTimeLock_verify(lock.args)
                  THEN "BadBTCTimeLock"
             ELSE IF /\ is_btc_time_lock(config, lock)
                     /\ check_btc_time_lock(BTCTimeLock_from_slice(lock.args), btc_tx,
                                            MIN_BTC_TIME_LOCK_AFTER)
                  THEN next
             ELSE "OutputCellWithUnknownLock"

RECURSIVE verify_outputs_unknown_on_parse(_, _, _, _, _)
\* verify_outputs_from with a parse failure of the arguments reported as an
\* unknown lock.
verify_outputs_unknown_on_parse(index, config, btc_tx, rgbpp_lock, outputs) ==
    IF index > Len(outputs) THEN "Ok"
    ELSE LET lock == outputs[index].lock
             next == verify_outputs_unknown_on_parse(index + 1, config, btc_tx,
                                                     rgbpp_lock, outputs)
         IN  IF outputs[index].type_ = <<>> THEN next
             ELSE IF /\ is_script_code_equal(lock, rgbpp_lock)
                     /\ RGBPPLock_verify(lock.args)
                     /\ check_utxo_seal(RGBPPLock_from_slice(lock.args), btc_tx)
                  THEN next
             ELSE IF /\ is_btc_time_lock(config, lock)
                     /\ BTCTimeLock_verify(lock.args)
                     /\ check_btc_time_lock(BTCTimeLock_from_slice(lock.args), btc_tx,
                                            MIN_BTC_TIME_LOCK_AFTER)
                  THEN next
             ELSE "OutputCellWithUnknownLock"

RECURSIVE verify_outputs_from(_, _, _, _, _)
\* The loop of verify_outputs from output number `index` (1-based) on.
verify_outputs_from(index, config, btc_tx, rgbpp_lock, outputs) ==
    IF index > Len(outputs) THEN "Ok"
    ELSE LET lock == outputs[index].lock
             next == verify_outputs_from(index + 1, config, btc_tx, rgbpp_lock, outputs)
         IN  IF outputs[index].type_ = <<>> THEN next
             ELSE IF /\ is_script_code_equal(lock, rgbpp_lock)
                     /\ ~RGBPPLock_verify(lock.args)
                  THEN "BadRGBPPLock"
             ELSE IF /\ is_script_code_equal(lock, rgbpp_lock)
                     /\ check_utxo_seal(RGBPPLock_from_slice(lock.args), btc_tx)
                  THEN next
             ELSE IF /\ is_btc_time_lock(config, lock)
                     /\ ~BTCTimeLock_verify(lock.args)
                  THEN "BadBTCTimeLock"
             ELSE IF /\ is_btc_time_lock(config, lock)
                     /\ check_btc_time_lock(BTCTimeLock_from_slice(lock.args), btc_tx,
                                            MIN_BTC_TIME_LOCK_AFTER)
                  THEN next
             ELSE "OutputCellWithUnknownLock"

\* verify_outputs(config, btc_tx)
verify_outputs(config, btc_tx, rgbpp_lock, outputs) ==
    verify_outputs_from(1, config, btc_tx, rgbpp_lock, outputs)

\* ------------------------------------------------------------------- state

VARIABLES
    entry,              \* the function the run starts in
    pc,                 \* the statement the run is at
    result,             \* "running", "Ok" or the error returned
    exit_code,          \* the status program_entry returned, once it has
    script,             \* load_script(): the running script
    ckb_tx,             \* load_transaction()
    input_type_hashes,  \* load_cell_type_hash(i, Source::Input) of every input
    witnesses,          \* the witnesses of the transaction
    group_input,        \* index of the first input of the script group
    lock_args,          \* main: lock_args
    config,             \* main: config
    unlock_witness,     \* main: unlock_witness
    btc_tx,             \* main: btc_tx
    btc_commitment,     \* check_btc_tx_commitment: btc_commitment
    commitment,         \* check_btc_tx_commitment: commitment
    lc_call,            \* check_btc_tx_exists: its arguments and its answer
    evaluated           \* the checks evaluated so far, in order

host == <<script, ckb_tx, input_type_hashes, witnesses, group_input>>
locals == <<lock_args, config, unlock_witness, btc_tx, btc_commitment, commitment, lc_call>>
vars == <<entry, pc, result, exit_code, host, locals, evaluated>>

\* ------------------------------------------------------------- input values

RgbppCode == Byte32_of(1)
BtcTimeLockCode == Byte32_of(2)
OtherCode == Byte32_of(3)
BtcLcTypeHash == Byte32_of(4)
TypeCode == Byte32_of(5)

\* Bitcoin transaction ids: the one the spent cell is sealed to, the one the
\* new cells are sealed to, one nothing refers to.
TxidA == Byte32_of(10)
TxidB == Byte32_of(11)
TxidC == Byte32_of(12)

RgbppLockOf(txid, index) ==
    [code_hash |-> RgbppCode, hash_type |-> HashTypeType,
     args |-> RGBPPLock_as_bytes([out_index |-> index, btc_txid |-> txid])]

\* A lock with the RGB++ code whose arguments are no RGBPPLock.
RgbppLockBadArgs ==
    [code_hash |-> RgbppCode, hash_type |-> HashTypeType, args |-> <<1, 2, 3>>]

OtherLock == [code_hash |-> OtherCode, hash_type |-> 0, args |-> <<9>>]

TimeLockOf(code, txid, after) ==
    [code_hash |-> code, hash_type |-> HashTypeType,
     args |-> BTCTimeLock_as_bytes(
                  [lock_script |-> OtherLock, after |-> after, btc_txid |-> txid])]

\* A lock with the time-lock code whose arguments are no BTCTimeLock.
TimeLockBadArgs ==
    [code_hash |-> BtcTimeLockCode, hash_type |-> HashTypeType, args |-> <<4, 0, 0, 0>>]

TypeScript == [code_hash |-> TypeCode, hash_type |-> HashTypeType, args |-> <<>>]

CellOutputOf(lock, typed) ==
    [capacity |-> 1000, lock |-> lock, type_ |-> IF typed THEN <<TypeScript>> ELSE <<>>]

CellInputOf(n) ==
    [since |-> 0, previous_output |-> [tx_hash |-> Byte32_of(20), index |-> n]]

TheConfig ==
    [btc_lc_type_hash |-> BtcLcTypeHash, btc_time_lock_type_hash |-> BtcTimeLockCode]

UnlockOf(version, input_len, output_len) ==
    [version |-> version,
     extra_data |-> [input_len |-> input_len, output_len |-> output_len],
     btc_tx |-> <<2, 0>>, btc_tx_proof |-> <<7>>]

WitnessOf(lock) == [wellformed |-> TRUE, lock |-> lock]
BadWitness == [wellformed |-> FALSE, lock |-> <<>>]

BtcTxOf(inputs) ==
    [txid |-> TxidB, inputs |-> [i \in 1..Len(inputs) |-> [previous_output |-> inputs[i]]]]

\* All sequences over S of length lo..hi.
SeqsOf(S, lo, hi) == UNION {[1..n -> S] : n \in lo..hi}

\* The commitment a spender embeds for the first input_len inputs and the
\* first output_len outputs of a transaction: the double hash of the tag, the
\* version, the two lengths, the previous outputs, and per output the
\* normalized output, the length of its data and the data.
NormalizedLock(cfg, rgbpp_script, lock) ==
    IF is_btc_time_lock(cfg, lock) /\ BTCTimeLock_verify(lock.args)
    THEN normalize_btc_time_lock(lock)
    ELSE IF is_script_code_equal(rgbpp_script, lock) /\ RGBPPLock_verify(lock.args)
    THEN normalize_rgbpp_lock(lock)
    ELSE lock

SpenderCommitment(cfg, rgbpp_script, tx, version, input_len, output_len) ==
    LET ni == Min(input_len, Len(tx.inputs))
        no == Min(output_len, Min(Len(tx.outputs), Len(tx.outputs_data)))
    IN  double_sha256(
            DomainTag \o to_le_bytes(version, 2) \o <<input_len, output_len>>
            \o Concat([i \in 1..ni |-> OutPoint_as_slice(tx.inputs[i].previous_output)])
            \o Concat([i \in 1..no |->
                   CellOutput_as_slice(
                       [tx.outputs[i] EXCEPT
                           !.lock = NormalizedLock(cfg, rgbpp_script, tx.outputs[i].lock)])
                   \o to_le_bytes(Len(tx.outputs_data[i]), 4)
                   \o tx.outputs_data[i]]))

\* A commitment no transaction of the model produces.
WrongCommitment == double_sha256(<<0>>)

\* ------------------------------------------------- what the host may supply

\* The running script: its arguments are an RGBPPLock, or are not.
OwnScripts == {RgbppLockOf(TxidA, 0), RgbppLockBadArgs}

\* The outputs a transaction is made of.
OutputKinds ==
    { CellOutputOf(RgbppLockOf(TxidB, 0), TRUE),
      CellOutputOf(RgbppLockBadArgs, TRUE),
      CellOutputOf(TimeLockOf(BtcTimeLockCode, TxidB, MIN_BTC_TIME_LOCK_AFTER), TRUE),
      CellOutputOf(TimeLockOf(BtcTimeLockCode, TxidB, MIN_BTC_TIME_LOCK_AFTER - 1), TRUE),
      CellOutputOf(OtherLock, TRUE),
      CellOutputOf(OtherLock, FALSE) }

\* The data of output number i.
DataOf(i) == IF i = 1 THEN <<>> ELSE <<7, i>>

\* The transactions: 1..MaxInputs inputs, 0..MaxOutputs outputs, as many data.
Txs ==
    { [inputs |-> [i \in 1..ni |-> CellInputOf(i - 1)],
       outputs |-> outs,
       outputs_data |-> [i \in 1..Len(outs) |-> DataOf(i)]] :
      ni \in 1..MaxInputs, outs \in SeqsOf(OutputKinds, 0, MaxOutputs) }

\* The headers of the unlock witnesses.
Unlocks ==
    {UnlockOf(0, il, ol) : il \in 0..MaxInputs, ol \in 0..MaxOutputs}
    \cup {UnlockOf(1, 1, 1), UnlockOf(1, 0, 1), UnlockOf(1, 1, 0)}

\* The witnesses: none, one without a lock field, a malformed one, one whose
\* lock field is not an RGBPPUnlock, one that holds the unlock, and one that
\* holds the index of the witness that holds it.
WitnessSets ==
    { <<>>, <<WitnessOf(<<>>)>>, <<BadWitness>>, <<WitnessOf(<< <<1, 2, 3, 4, 5>> >>)>> }
    \cup {<<WitnessOf(<<RGBPPUnlock_as_bytes(u)>>)>> : u \in Unlocks}
    \cup {<< WitnessOf(<<to_le_bytes(1, 4)>>),
             WitnessOf(<<RGBPPUnlock_as_bytes(UnlockOf(0, 1, 1))>>) >>}

\* The Bitcoin transactions the parser may return.
BtcTxs ==
    { BtcTxOf(ins) :
      ins \in { s \in SeqsOf({<<TxidA, 0>>, <<TxidB, 0>>}, 0, MaxBtcInputs) :
                \A i, j \in 1..Len(s) : i < j => s[i] # s[j] }
              \cup {<< <<TxidA, 1>> >>} }

\* --------------------------------------------------------------- the script

Init ==
    /\ entry = "main"
    /\ pc = "load_script"
    /\ result = "running"
    /\ exit_code = <<>>
    /\ script = <<>>
    /\ ckb_tx = <<>>
    /\ input_type_hashes = <<>>
    /\ witnesses = <<>>
    /\ group_input = 0
    /\ lock_args = <<>>
    /\ config = <<>>
    /\ unlock_witness = <<>>
    /\ btc_tx = <<>>
    /\ btc_commitment = <<>>
    /\ commitment = <<>>
    /\ lc_call = <<>>
    /\ evaluated = <<>>

\* The function the run is in returns r: main returns to program_entry, a
\* function run on its own is done.
Return(r) ==
    /\ result' = r
    /\ pc' = IF entry = "main" THEN "exit" ELSE "done"

\* The check passed: go on with `next`, or return Ok when the function the run
\* started in ends here.
Continue(next, last_of) ==
    IF entry \in last_of THEN Return("Ok")
    ELSE pc' = next /\ UNCHANGED result

\* main: load_script() and RGBPPLock::from_slice of its arguments.
LoadScript ==
    /\ pc = "load_script"
    /\ \E s \in OwnScripts :
          /\ script' = <<s>>
          /\ IF RGBPPLock_verify(s.args)
             THEN lock_args' = <<RGBPPLock_from_slice(s.args)>> /\ Continue("load_transaction", {})
             ELSE lock_args' = <<>> /\ Return("BadRGBPPLock")
    /\ evaluated' = Append(evaluated, "lock_args")
    /\ UNCHANGED <<entry, exit_code, ckb_tx, input_type_hashes, witnesses, group_input,
                   config, unlock_witness, btc_tx, btc_commitment, commitment, lc_call>>

\* main: load_transaction() and load_config().
LoadTransaction ==
    /\ pc = "load_transaction"
    /\ \E tx \in Txs : ckb_tx' = <<tx>>
    /\ \E ok \in BOOLEAN :
          IF ok THEN config' = <<TheConfig>> /\ Continue("fetch_unlock", {})
          ELSE config' = <<>> /\ Return("BadConfig")
    /\ evaluated' = Append(evaluated, "config")
    /\ UNCHANGED <<entry, exit_code, script, input_type_hashes, witnesses, group_input,
                   lock_args, unlock_witness, btc_tx, btc_commitment, commitment, lc_call>>

\* fetch_unlock_from_witness() on one of the given witness lists, each with
\* the index of the first input of the script group.
FetchUnlockFrom(lists) ==
    /\ pc = "fetch_unlock"
    /\ \E w \in lists :
          /\ witnesses' = w.witnesses
          /\ group_input' = w.group_input
          /\ LET r == fetch_unlock_from_witness(w.witnesses, w.group_input)
             IN  IF r.err = "Ok"
                 THEN unlock_witness' = <<r.val>> /\ Continue("parse_btc_tx", {"fetch_unlock_from_witness"})
                 ELSE unlock_witness' = <<>> /\ Return(r.err)
    /\ evaluated' = Append(evaluated, "unlock_witness")
    /\ UNCHANGED <<entry, exit_code, script, ckb_tx, input_type_hashes,
                   lock_args, config, btc_tx, btc_commitment, commitment, lc_call>>

\* main: fetch_unlock_from_witness().
FetchUnlock == FetchUnlockFrom({[witnesses |-> ws, group_input |-> 0] : ws \in WitnessSets})

\* main: parse_btc_tx(&raw_btc_tx).
ParseBtcTx ==
    /\ pc = "parse_btc_tx"
    /\ \/ \E tx \in BtcTxs : btc_tx' = <<tx>> /\ Continue("seal", {})
       \/ btc_tx' = <<>> /\ Return("BadBtcTx")
    /\ evaluated' = Append(evaluated, "btc_tx")
    /\ UNCHANGED <<entry, exit_code, host, lock_args, config, unlock_witness,
                   btc_commitment, commitment, lc_call>>

\* verify_unlock: the Bitcoin transaction spends the outpoint of the lock.
CheckSeal ==
    /\ pc = "seal"
    /\ IF is_found(btc_tx[1].inputs, expected_out_point(lock_args[1]))
       THEN Continue("light_client", {})
       ELSE Return("UtxoSealMismatch")
    /\ evaluated' = Append(evaluated, "seal")
    /\ UNCHANGED <<entry, exit_code, host, locals>>

\* verify_unlock: check_btc_tx_exists(lc type hash, txid, 0, proof).
CheckBtcTxExists ==
    /\ pc = "light_client"
    /\ \E r \in {"Ok", "BtcTxNotFound"} :
          /\ lc_call' = << [type_hash |-> config[1].btc_lc_type_hash,
                            txid |-> btc_tx[1].txid,
                            confirmations |-> 0,
                            proof |-> unlock_witness[1].btc_tx_proof,
                            returned |-> r] >>
          /\ IF r = "Ok" THEN Continue("extract_commitment", {}) ELSE Return(r)
    /\ evaluated' = Append(evaluated, "light_client")
    /\ UNCHANGED <<entry, exit_code, host, lock_args, config, unlock_witness, btc_tx,
                   btc_commitment, commitment>>

\* check_btc_tx_commitment, 1: bitcoin::extract_commitment(btc_tx).
ExtractCommitment ==
    /\ pc = "extract_commitment"
    /\ \E c \in { <<>>, <<WrongCommitment>>,
                  << SpenderCommitment(config[1], script[1], ckb_tx[1],
                                       unlock_witness[1].version,
                                       unlock_witness[1].extra_data.input_len,
                                       unlock_witness[1].extra_data.output_len) >> } :
          /\ btc_commitment' = c
          /\ IF c # <<>> THEN Continue("version", {}) ELSE Return("BadBtcCommitment")
    /\ evaluated' = Append(evaluated, "extract_commitment")
    /\ UNCHANGED <<entry, exit_code, host, lock_args, config, unlock_witness, btc_tx,
                   commitment, lc_call>>

\* CheckVersion with the version looked at after the two lengths.
CheckVersionAfterLengths ==
    /\ pc = "version"
    /\ IF \/ unlock_witness[1].extra_data.input_len = 0
          \/ unlock_witness[1].extra_data.output_len = 0
       THEN Return("BadBtcCommitment")
       ELSE IF unlock_witness[1].version = 0
            THEN Continue("input_len", {})
            ELSE Return("UnknownCommitmentVersion")
    /\ evaluated' = Append(evaluated, "version")
    /\ UNCHANGED <<entry, exit_code, host, locals>>

\* check_btc_tx_commitment, 2: ensure_eq!(version, 0, ..).
CheckVersion ==
    /\ pc = "version"
    /\ IF unlock_witness[1].version = 0
       THEN Continue("input_len", {})
       ELSE Return("UnknownCommitmentVersion")
    /\ evaluated' = Append(evaluated, "version")
    /\ UNCHANGED <<entry, exit_code, host, locals>>

\* check_btc_tx_commitment, 2: ensure!(input_len > 0, ..).
CheckInputLen ==
    /\ pc = "input_len"
    /\ IF unlock_witness[1].extra_data.input_len > 0
       THEN Continue("output_len", {})
       ELSE Return("BadBtcCommitment")
    /\ evaluated' = Append(evaluated, "input_len")
    /\ UNCHANGED <<entry, exit_code, host, locals>>

\* check_btc_tx_commitment, 2: ensure!(output_len > 0, ..).
CheckOutputLen ==
    /\ pc = "output_len"
    /\ IF unlock_witness[1].extra_data.output_len > 0
       THEN Continue("inputs_committed", {})
       ELSE Return("BadBtcCommitment")
    /\ evaluated' = Append(evaluated, "output_len")
    /\ UNCHANGED <<entry, exit_code, host, locals>>

\* check_btc_tx_commitment, 2: ensure!(inputs_are_committed, ..).  The type
\* hash of the cell of every input is read here.
CheckInputsCommitted ==
    /\ pc = "inputs_committed"
    /\ \E hs \in [1..Len(ckb_tx[1].inputs) -> {<<>>, <<TypeCode>>}] :
          /\ input_type_hashes' = hs
          /\ IF inputs_are_committed(hs, unlock_witness[1].extra_data.input_len)
             THEN Continue("outputs_committed", {})
             ELSE Return("CommitmentMismatch")
    /\ evaluated' = Append(evaluated, "inputs_committed")
    /\ UNCHANGED <<entry, exit_code, script, ckb_tx, witnesses, group_input, locals>>

\* check_btc_tx_commitment, 2: ensure!(outputs_are_committed, ..).
CheckOutputsCommitted ==
    /\ pc = "outputs_committed"
    /\ IF outputs_are_committed(ckb_tx[1].outputs, unlock_witness[1].extra_data.output_len)
       THEN Continue("gen_commitment", {})
       ELSE Return("CommitmentMismatch")
    /\ evaluated' = Append(evaluated, "outputs_committed")
    /\ UNCHANGED <<entry, exit_code, host, locals>>

\* check_btc_tx_commitment, 3: the hasher is fed and finalized twice.
GenCommitment ==
    /\ pc = "gen_commitment"
    /\ LET s == gen_commitment_stream(config[1], script[1], ckb_tx[1],
                                      unlock_witness[1].version,
                                      unlock_witness[1].extra_data.input_len,
                                      unlock_witness[1].extra_data.output_len)
       IN  IF s.err = "Ok"
           THEN commitment' = <<double_sha256(s.bytes)>> /\ Continue("compare", {})
           ELSE commitment' = <<>> /\ Return(s.err)
    /\ evaluated' = Append(evaluated, "gen_commitment")
    /\ UNCHANGED <<entry, exit_code, host, lock_args, config, unlock_witness, btc_tx,
                   btc_commitment, lc_call>>

\* check_btc_tx_commitment: ensure_eq!(commitment, btc_commitment, ..).
CompareCommitment ==
    /\ pc = "compare"
    /\ IF commitment[1] = btc_commitment[1]
       THEN Continue("verify_outputs", {"verify_unlock", "check_btc_tx_commitment"})
       ELSE Return("CommitmentMismatch")
    /\ evaluated' = Append(evaluated, "compare")
    /\ UNCHANGED <<entry, exit_code, host, locals>>

\* main: verify_outputs(&config, &btc_tx), the last statement of main.
VerifyOutputs ==
    /\ pc = "verify_outputs"
    /\ Return(verify_outputs(config[1], btc_tx[1], script[1], ckb_tx[1].outputs))
    /\ evaluated' = Append(evaluated, "verify_outputs")
    /\ UNCHANGED <<entry, exit_code, host, locals>>

\* program_entry: Ok is status 0, an error its code.
ProgramEntry ==
    /\ pc = "exit"
    /\ exit_code' = <<IF result = "Ok" THEN 0 ELSE ErrorCode(result)>>
    /\ pc' = "done"
    /\ UNCHANGED <<entry, result, host, locals, evaluated>>

Next ==
    \/ LoadScript
    \/ LoadTransaction
    \/ FetchUnlock
    \/ ParseBtcTx
    \/ CheckSeal
    \/ CheckBtcTxExists
    \/ ExtractCommitment
    \/ CheckVersion
    \/ CheckInputLen
    \/ CheckOutputLen
    \/ CheckInputsCommitted
    \/ CheckOutputsCommitted
    \/ GenCommitment
    \/ CompareCommitment
    \/ VerifyOutputs
    \/ ProgramEntry

Spec == Init /\ [][Next]_vars

\* ------------------------------------------- fetch_unlock_from_witness alone

\* Largest number of witnesses of the transaction.
MaxWitnesses == 2

\* The unlocks a witness may hold.
ResolverUnlocks == {UnlockOf(0, 1, 1), UnlockOf(1, 2, 1)}

\* The lock fields a witness may hold: nothing, 3 or 5 bytes that are no
\* unlock, the indexes 0, 1, 2 and 256 in 4 bytes, an unlock.
LockFields ==
    { <<>>, << <<1, 2, 3>> >>, << <<1, 2, 3, 4, 5>> >>,
      <<to_le_bytes(0, 4)>>, <<to_le_bytes(1, 4)>>, <<to_le_bytes(2, 4)>>,
      <<to_le_bytes(256, 4)>> }
    \cup {<<RGBPPUnlock_as_bytes(u)>> : u \in ResolverUnlocks}

AllWitnessLists ==
    { [witnesses |-> ws, group_input |-> g] :
      ws \in SeqsOf({WitnessOf(f) : f \in LockFields} \cup {BadWitness}, 0, MaxWitnesses),
      g \in 0..1 }

\* fetch_unlock_from_witness() on any list of witnesses.
ResolveUnlock == FetchUnlockFrom(AllWitnessLists)

\* Nothing has been read from the host, nothing computed.
Unread ==
    /\ result = "running"
    /\ exit_code = <<>>
    /\ input_type_hashes = <<>>
    /\ btc_commitment = <<>>
    /\ commitment = <<>>
    /\ lc_call = <<>>
    /\ evaluated = <<>>

InitResolver ==
    /\ entry = "fetch_unlock_from_witness"
    /\ pc = "fetch_unlock"
    /\ Unread
    /\ script = <<>>
    /\ ckb_tx = <<>>
    /\ witnesses = <<>>
    /\ group_input = 0
    /\ lock_args = <<>>
    /\ config = <<>>
    /\ unlock_witness = <<>>
    /\ btc_tx = <<>>

NextResolver == ResolveUnlock

SpecResolver == InitResolver /\ [][NextResolver]_vars

\* -------------------------------------------------------- verify_unlock alone

\* The outpoints the lock and the inputs of the Bitcoin transaction are made of.
SealOutPoints == {<<TxidA, 0>>, <<TxidA, 1>>, <<TxidB, 0>>, <<TxidB, 1>>}

\* One input, one output sealed to <<TxidB, 0>>.
PlainTx ==
    [inputs |-> <<CellInputOf(0)>>,
     outputs |-> <<CellOutputOf(RgbppLockOf(TxidB, 0), TRUE)>>,
     outputs_data |-> <<DataOf(1)>>]

InitUnlock ==
    /\ entry = "verify_unlock"
    /\ pc = "seal"
    /\ Unread
    /\ \E p \in {<<TxidA, 0>>, <<TxidB, 1>>} :
          /\ script = <<RgbppLockOf(p[1], p[2])>>
          /\ lock_args = <<[out_index |-> p[2], btc_txid |-> p[1]]>>
    /\ ckb_tx = <<PlainTx>>
    /\ witnesses = <<>>
    /\ group_input = 0
    /\ config = <<TheConfig>>
    /\ unlock_witness \in {<<UnlockOf(0, 1, 1)>>, <<UnlockOf(1, 1, 1)>>}
    /\ btc_tx \in {<<BtcTxOf(ins)>> : ins \in SeqsOf(SealOutPoints, 0, MaxBtcInputs)}

NextUnlock ==
    \/ CheckSeal
    \/ CheckBtcTxExists
    \/ ExtractCommitment
    \/ CheckVersion
    \/ CheckInputLen
    \/ CheckOutputLen
    \/ CheckInputsCommitted
    \/ CheckOutputsCommitted
    \/ GenCommitment
    \/ CompareCommitment

SpecUnlock == InitUnlock /\ [][NextUnlock]_vars

\* ---------------------------------------------- check_btc_tx_commitment alone

CommitOutputKinds ==
    { CellOutputOf(RgbppLockOf(TxidB, 0), TRUE),
      CellOutputOf(RgbppLockBadArgs, TRUE),
      CellOutputOf(TimeLockOf(BtcTimeLockCode, TxidB, MIN_BTC_TIME_LOCK_AFTER), TRUE),
      CellOutputOf(TimeLockBadArgs, FALSE),
      CellOutputOf(OtherLock, FALSE) }

\* One input or MaxInputs inputs, 0..MaxOutputs outputs, as many data.
CommitTxs ==
    { [inputs |-> [i \in 1..ni |-> CellInputOf(i - 1)],
       outputs |-> outs,
       outputs_data |-> [i \in 1..Len(outs) |-> DataOf(i)]] :
      ni \in {1, MaxInputs}, outs \in SeqsOf(CommitOutputKinds, 0, MaxOutputs) }

\* The declared lengths go one past the largest number of inputs and outputs.
CommitUnlocks ==
    {UnlockOf(0, il, ol) : il \in 0..(MaxInputs + 1), ol \in 0..(MaxOutputs + 1)}
    \cup {UnlockOf(1, 1, 1)}

InitCommit ==
    /\ entry = "check_btc_tx_commitment"
    /\ pc = "extract_commitment"
    /\ Unread
    /\ script = <<RgbppLockOf(TxidA, 0)>>
    /\ lock_args = <<[out_index |-> 0, btc_txid |-> TxidA]>>
    /\ ckb_tx \in {<<tx>> : tx \in CommitTxs}
    /\ witnesses = <<>>
    /\ group_input = 0
    /\ config = <<TheConfig>>
    /\ unlock_witness \in {<<u>> : u \in CommitUnlocks}
    /\ btc_tx = <<BtcTxOf(<< <<TxidA, 0>>, <<TxidB, 0>> >>)>>

NextCommit ==
    \/ ExtractCommitment
    \/ CheckVersion
    \/ CheckInputLen
    \/ CheckOutputLen
    \/ CheckInputsCommitted
    \/ CheckOutputsCommitted
    \/ GenCommitment
    \/ CompareCommitment

SpecCommit == InitCommit /\ [][NextCommit]_vars

\* ------------------------------------------------------- verify_outputs alone

\* A configuration whose time lock is the RGB++ code itself.
OverlapConfig ==
    [btc_lc_type_hash |-> BtcLcTypeHash, btc_time_lock_type_hash |-> RgbppCode]

ScanOutputKinds ==
    { CellOutputOf(RgbppLockOf(TxidB, 0), TRUE),
      CellOutputOf(RgbppLockOf(TxidC, 0), TRUE),
      CellOutputOf(RgbppLockBadArgs, TRUE),
      CellOutputOf(RgbppLockBadArgs, FALSE),
      CellOutputOf(TimeLockOf(BtcTimeLockCode, TxidB, MIN_BTC_TIME_LOCK_AFTER), TRUE),
      CellOutputOf(TimeLockOf(BtcTimeLockCode, TxidB, MIN_BTC_TIME_LOCK_AFTER - 1), TRUE),
      CellOutputOf(TimeLockOf(BtcTimeLockCode, TxidC, MIN_BTC_TIME_LOCK_AFTER), TRUE),
      CellOutputOf(TimeLockOf(RgbppCode, TxidB, MIN_BTC_TIME_LOCK_AFTER), TRUE),
      CellOutputOf(TimeLockBadArgs, TRUE),
      CellOutputOf(OtherLock, TRUE),
      CellOutputOf(OtherLock, FALSE) }

InitOutputs ==
    /\ entry = "verify_outputs"
    /\ pc = "verify_outputs"
    /\ Unread
    /\ script = <<RgbppLockOf(TxidA, 0)>>
    /\ lock_args = <<[out_index |-> 0, btc_txid |-> TxidA]>>
    /\ ckb_tx \in { << [inputs |-> <<CellInputOf(0)>>,
                        outputs |-> outs,
                        outputs_data |-> [i \in 1..Len(outs) |-> DataOf(i)]] >> :
                    outs \in SeqsOf(ScanOutputKinds, 0, MaxOutputs) }
    /\ witnesses = <<>>
    /\ group_input = 0
    /\ config \in {<<TheConfig>>, <<OverlapConfig>>}
    /\ unlock_witness = <<UnlockOf(0, 1, 1)>>
    /\ btc_tx \in {<<BtcTxOf(<< <<TxidA, 0>>, <<TxidB, 0>> >>)>>, <<BtcTxOf(<< <<TxidA, 0>> >>)>>}

NextOutputs == VerifyOutputs

SpecOutputs == InitOutputs /\ [][NextOutputs]_vars

\* ===================================================================
\* Properties
\* ===================================================================

Range(seq) == {seq[i] : i \in 1..Len(seq)}

Last(seq) == seq[Len(seq)]

\* The RGB++ branch of the output scan accepts the output.
AcceptedAsRgbpp(out) ==
    /\ is_script_code_equal(out.lock, script[1])
    /\ RGBPPLock_verify(out.lock.args)
    /\ check_utxo_seal(RGBPPLock_from_slice(out.lock.args), btc_tx[1])

\* The time-lock branch of the output scan accepts the output.
AcceptedAsTimeLock(out) ==
    /\ is_btc_time_lock(config[1], out.lock)
    /\ BTCTimeLock_verify(out.lock.args)
    /\ check_btc_time_lock(BTCTimeLock_from_slice(out.lock.args), btc_tx[1],
                           MIN_BTC_TIME_LOCK_AFTER)

\* C1: whenever the script exits with status 0, every output that carries a
\* type script has a lock that the RGB++ branch accepts (same code as the
\* running script, arguments an RGBPPLock, seal check passed) or that the
\* time-lock branch accepts (the configured time lock, arguments a
\* BTCTimeLock, time-lock check passed with MIN_BTC_TIME_LOCK_AFTER).
C1_ClosedWorld ==
    exit_code = <<0>> =>
        \A j \in 1..Len(ckb_tx[1].outputs) :
            ckb_tx[1].outputs[j].type_ # <<>> =>
                \/ AcceptedAsRgbpp(ckb_tx[1].outputs[j])
                \/ AcceptedAsTimeLock(ckb_tx[1].outputs[j])

\* An accepted transaction with one typed output of each kind.
C1_Witness ==
    /\ exit_code = <<0>>
    /\ \E j \in 1..Len(ckb_tx[1].outputs) :
          ckb_tx[1].outputs[j].type_ # <<>> /\ AcceptedAsRgbpp(ckb_tx[1].outputs[j])
    /\ \E j \in 1..Len(ckb_tx[1].outputs) :
          ckb_tx[1].outputs[j].type_ # <<>> /\ AcceptedAsTimeLock(ckb_tx[1].outputs[j])

\* The digest of the commitment steps for one input and one output, written
\* out: tag, version 0, lengths 1 and 1, the previous output of the input, the
\* output with the txid of its RGB++ arguments zeroed, the length of the data
\* and the data; hashed twice.
C2_ExpectedDigest ==
    LET tx == ckb_tx[1]
        out == tx.outputs[1]
        args == out.lock.args
    IN  sha2(sha2(
            <<82, 71, 66, 43, 43>> \o <<0, 0>> \o <<1, 1>>
            \o tx.inputs[1].previous_output.tx_hash
            \o to_le_bytes(tx.inputs[1].previous_output.index, 4)
            \o CellOutput_as_slice(
                   [out EXCEPT !.lock.args =
                       SubSeq(args, 1, 4) \o [i \in 1..HashLen |-> 0]])
            \o to_le_bytes(Len(tx.outputs_data[1]), 4)
            \o tx.outputs_data[1]))

\* The witness the resolver ends at holds a well-formed unlock with version
\* 0, input_len 1 and output_len 1.
C2_GoodWitness ==
    LET good == <<RGBPPUnlock_as_bytes(UnlockOf(0, 1, 1))>>
        first == witnesses[group_input + 1]
    IN  /\ group_input < Len(witnesses)
        /\ first.wellformed
        /\ \/ first.lock = good
           \/ /\ first.lock = <<to_le_bytes(1, 4)>>
              /\ Len(witnesses) >= 2
              /\ witnesses[2].wellformed
              /\ witnesses[2].lock = good

\* The end-to-end scenario, as far as the run has read its inputs.
C2_Scenario ==
    /\ script # <<>> => RGBPPLock_verify(script[1].args)
    /\ "config" \in Range(evaluated) => config # <<>>
    /\ ckb_tx # <<>> =>
          /\ Len(ckb_tx[1].inputs) = 1
          /\ Len(ckb_tx[1].outputs) = 1
          /\ ckb_tx[1].outputs[1].type_ # <<>>
          /\ is_script_code_equal(ckb_tx[1].outputs[1].lock, script[1])
          /\ RGBPPLock_verify(ckb_tx[1].outputs[1].lock.args)
    /\ "unlock_witness" \in Range(evaluated) => C2_GoodWitness
    /\ "btc_tx" \in Range(evaluated) =>
          /\ btc_tx # <<>>
          /\ <<lock_args[1].btc_txid, lock_args[1].out_index>>
                 \in {btc_tx[1].inputs[i].previous_output : i \in 1..Len(btc_tx[1].inputs)}
          /\ check_utxo_seal(RGBPPLock_from_slice(ckb_tx[1].outputs[1].lock.args), btc_tx[1])
    /\ lc_call # <<>> => lc_call[1].returned = "Ok"
    /\ "extract_commitment" \in Range(evaluated) => btc_commitment = <<C2_ExpectedDigest>>

\* C2: in the end-to-end scenario (one input, one output re-sealed with the
\* RGB++ lock, the seal of the spent cell among the Bitcoin inputs, a
\* well-formed unlock with version 0 and lengths 1 and 1, a light client that
\* accepts, the commitment of the commitment steps) no check rejects and the
\* script exits with status 0.
C2_EndToEndAccept ==
    C2_Scenario =>
        /\ result \in {"running", "Ok"}
        /\ pc = "done" => exit_code = <<0>>

\* The scenario, run to its end and accepted.
C2_Witness == C2_Scenario /\ pc = "done" /\ exit_code = <<0>>

\* The checks of main, in the order they are evaluated.
CheckOrder ==
    << "lock_args", "config", "unlock_witness", "btc_tx", "seal", "light_client",
       "extract_commitment", "version", "input_len", "output_len",
       "inputs_committed", "outputs_committed", "gen_commitment", "compare",
       "verify_outputs" >>

\* The errors each check fails with.
ErrorsOf(check) ==
    CASE check = "lock_args" -> {"BadRGBPPLock"}
      [] check = "config" -> {"BadConfig"}
      [] check = "unlock_witness" ->
             {"IndexOutOfBound", "Encoding", "ItemMissing", "BadRGBPPUnlock"}
      [] check = "btc_tx" -> {"BadBtcTx"}
      [] check = "seal" -> {"UtxoSealMismatch"}
      [] check = "light_client" -> {lc_call[1].returned}
      [] check = "extract_commitment" -> {"BadBtcCommitment"}
      [] check = "version" -> {"UnknownCommitmentVersion"}
      [] check = "input_len" -> {"BadBtcCommitment"}
      [] check = "output_len" -> {"BadBtcCommitment"}
      [] check = "inputs_committed" -> {"CommitmentMismatch"}
      [] check = "outputs_committed" -> {"CommitmentMismatch"}
      [] check = "gen_commitment" -> {"BadRGBPPLock", "BadBTCTimeLock"}
      [] check = "compare" -> {"CommitmentMismatch"}
      [] check = "verify_outputs" ->
             {"OutputCellWithUnknownLock", "BadRGBPPLock", "BadBTCTimeLock"}

\* The arguments of a covered output whose lock is normalized do not parse.
UnparsableCoveredLock ==
    LET tx == ckb_tx[1]
        n == Min(unlock_witness[1].extra_data.output_len,
                 Min(Len(tx.outputs), Len(tx.outputs_data)))
    IN  \E j \in 1..n :
            \/ /\ is_btc_time_lock(config[1], tx.outputs[j].lock)
               /\ ~BTCTimeLock_verify(tx.outputs[j].lock.args)
            \/ /\ ~is_btc_time_lock(config[1], tx.outputs[j].lock)
               /\ is_script_code_equal(script[1], tx.outputs[j].lock)
               /\ ~RGBPPLock_verify(tx.outputs[j].lock.args)

\* What each check decides, read off the inputs of the run.
Passes(check) ==
    CASE check = "lock_args" -> RGBPPLock_verify(script[1].args)
      [] check = "config" -> config # <<>>
      [] check = "unlock_witness" -> unlock_witness # <<>>
      [] check = "btc_tx" -> btc_tx # <<>>
      [] check = "seal" ->
             <<lock_args[1].btc_txid, lock_args[1].out_index>>
                 \in {btc_tx[1].inputs[i].previous_output : i \in 1..Len(btc_tx[1].inputs)}
      [] check = "light_client" ->
             lc_call[1].returned = "Ok" /\ lc_call[1].confirmations = 0
      [] check = "extract_commitment" -> btc_commitment # <<>>
      [] check = "version" -> unlock_witness[1].version = 0
      [] check = "input_len" -> unlock_witness[1].extra_data.input_len > 0
      [] check = "output_len" -> unlock_witness[1].extra_data.output_len > 0
      [] check = "inputs_committed" ->
             \A i \in 1..Len(input_type_hashes) :
                 i > unlock_witness[1].extra_data.input_len => input_type_hashes[i] = <<>>
      [] check = "outputs_committed" ->
             \A j \in 1..Len(ckb_tx[1].outputs) :
                 j > unlock_witness[1].extra_data.output_len
                     => ckb_tx[1].outputs[j].type_ = <<>>
      [] check = "gen_commitment" -> ~UnparsableCoveredLock
      [] check = "compare" ->
             btc_commitment[1] =
                 SpenderCommitment(config[1], script[1], ckb_tx[1],
                                   unlock_witness[1].version,
                                   unlock_witness[1].extra_data.input_len,
                                   unlock_witness[1].extra_data.output_len)
      [] check = "verify_outputs" ->
             \A j \in 1..Len(ckb_tx[1].outputs) :
                 ckb_tx[1].outputs[j].type_ # <<>> =>
                     \/ AcceptedAsRgbpp(ckb_tx[1].outputs[j])
                     \/ AcceptedAsTimeLock(ckb_tx[1].outputs[j])

\* What a check that was never evaluated has not read or computed.
Untouched(check) ==
    CASE check = "light_client" -> lc_call = <<>>
      [] check = "extract_commitment" -> btc_commitment = <<>>
      [] check = "inputs_committed" -> input_type_hashes = <<>>
      [] check = "gen_commitment" -> commitment = <<>>
      [] check = "btc_tx" -> btc_tx = <<>>
      [] check = "unlock_witness" -> unlock_witness = <<>> /\ witnesses = <<>>
      [] OTHER -> TRUE

\* C4 (as amended): the checks run in the fixed order of CheckOrder, which
\* has the feeding of the hasher (parse of the arguments of the covered RGB++
\* and time-lock outputs: BadRGBPPLock, BadBTCTimeLock) between the
\* exclusivity checks and the digest comparison; every check before the last
\* one evaluated passed, a rejected run ends at the first check that fails
\* with an error of that check, and no later check reads or computes
\* anything.  The light client is called with 0 confirmations, is not
\* consulted after a seal mismatch, and the version is looked at before the
\* two lengths.
C4_FailFast ==
    /\ Len(evaluated) <= Len(CheckOrder)
    /\ evaluated = SubSeq(CheckOrder, 1, Len(evaluated))
    /\ \A k \in 1..Len(evaluated) :
          \/ Passes(evaluated[k])
          \/ /\ k = Len(evaluated)
             /\ result \in ErrorsOf(evaluated[k])
    /\ result \notin {"running", "Ok"} =>
          /\ ~Passes(Last(evaluated))
          /\ pc \in {"exit", "done"}
    /\ result = "Ok" => evaluated = CheckOrder
    /\ \A k \in (Len(evaluated) + 1)..Len(CheckOrder) : Untouched(CheckOrder[k])
    /\ result = "UtxoSealMismatch" => lc_call = <<>>
    /\ lc_call # <<>> => lc_call[1].confirmations = 0
    /\ exit_code # <<>> => (exit_code = <<0>> <=> result = "Ok")

\* A run with version 1 and input_len 0 that reached the header checks and
\* ended with UnknownCommitmentVersion.
C4_Witness ==
    /\ pc = "done"
    /\ result = "UnknownCommitmentVersion"
    /\ unlock_witness[1].extra_data.input_len = 0

\* C4 (as stated): once both exclusivity checks have passed, what is left is
\* the digest comparison (CommitmentMismatch) and then the output scan
\* (OutputCellWithUnknownLock), so a rejected run ends with one of the two.
C4_OrderAsStated ==
    (/\ pc = "done"
     /\ result # "Ok"
     /\ "outputs_committed" \in Range(evaluated)
     /\ Last(evaluated) # "outputs_committed")
        => result \in {"CommitmentMismatch", "OutputCellWithUnknownLock"}

\* The previous outputs of the inputs of the Bitcoin transaction.
SpentOutPoints ==
    {btc_tx[1].inputs[i].previous_output : i \in 1..Len(btc_tx[1].inputs)}

\* C3: verify_unlock ends with UtxoSealMismatch exactly when no input of the
\* Bitcoin transaction has the previous output (btc_txid, out_index) of the
\* lock arguments, so a run that ends Ok has it among the inputs; and the
\* search finds the same for every other list of inputs with the same set of
\* previous outputs (order and duplicates do not matter) and finds the seal
\* exactly when the pair is in that set (a part of the pair does not count).
C3_SealMatching ==
    LET expected == <<lock_args[1].btc_txid, lock_args[1].out_index>>
    IN  /\ "seal" \in Range(evaluated) =>
              (result = "UtxoSealMismatch" <=> expected \notin SpentOutPoints)
        /\ (pc = "done" /\ result = "Ok") => expected \in SpentOutPoints
        /\ \A ins \in SeqsOf(SealOutPoints, 0, MaxBtcInputs) :
              is_found(BtcTxOf(ins).inputs, expected) = (expected \in Range(ins))

\* A mismatch although one input has the txid of the lock with another index
\* and one the index of the lock with another txid.
C3_Witness ==
    /\ result = "UtxoSealMismatch"
    /\ \E op \in SpentOutPoints :
          op[1] = lock_args[1].btc_txid /\ op[2] # lock_args[1].out_index
    /\ \E op \in SpentOutPoints :
          op[1] # lock_args[1].btc_txid /\ op[2] = lock_args[1].out_index

\* What the output scan decides about one typed output: "accepted" or the
\* error it stops with.
ScanVerdict(out) ==
    IF is_script_code_equal(out.lock, script[1]) /\ ~RGBPPLock_verify(out.lock.args)
    THEN "BadRGBPPLock"
    ELSE IF AcceptedAsRgbpp(out) THEN "accepted"
    ELSE IF is_btc_time_lock(config[1], out.lock) /\ ~BTCTimeLock_verify(out.lock.args)
    THEN "BadBTCTimeLock"
    ELSE IF AcceptedAsTimeLock(out) THEN "accepted"
    ELSE "OutputCellWithUnknownLock"

\* The typed outputs the scan does not accept.
Rejected ==
    {j \in 1..Len(ckb_tx[1].outputs) :
        /\ ckb_tx[1].outputs[j].type_ # <<>>
        /\ ScanVerdict(ckb_tx[1].outputs[j]) # "accepted"}

\* C6 (as amended): the scan ends Ok when it accepts every typed output, and
\* otherwise with the error of the first typed output it does not accept:
\* BadRGBPPLock when the lock has the RGB++ code and its arguments are no
\* RGBPPLock, BadBTCTimeLock when it is the time lock (and the RGB++ branch
\* did not accept it) and its arguments are no BTCTimeLock, and
\* OutputCellWithUnknownLock in the remaining cases, among them a false seal
\* check and a delay below the minimum.
C6_RejectionKind ==
    pc = "done" =>
        /\ Rejected = {} => result = "Ok"
        /\ \A j \in Rejected :
              (\A k \in Rejected : j <= k) =>
                  /\ result = ScanVerdict(ckb_tx[1].outputs[j])
                  /\ LET out == ckb_tx[1].outputs[j]
                     IN  (/\ is_script_code_equal(out.lock, script[1])
                              => RGBPPLock_verify(out.lock.args)
                          /\ is_btc_time_lock(config[1], out.lock)
                              => BTCTimeLock_verify(out.lock.args))
                             => result = "OutputCellWithUnknownLock"

\* An accepted typed output followed by one with the RGB++ code and
\* arguments that do not parse, and the scan ends with BadRGBPPLock.
C6_Witness ==
    /\ pc = "done"
    /\ result = "BadRGBPPLock"
    /\ Len(ckb_tx[1].outputs) = 2
    /\ ckb_tx[1].outputs[1].type_ # <<>>
    /\ AcceptedAsRgbpp(ckb_tx[1].outputs[1])
    /\ ckb_tx[1].outputs[2].type_ # <<>>
    /\ is_script_code_equal(ckb_tx[1].outputs[2].lock, script[1])
    /\ ~RGBPPLock_verify(ckb_tx[1].outputs[2].lock.args)

\* C6 (as stated): a typed output that neither branch accepts makes the scan
\* end with OutputCellWithUnknownLock, also when the arguments of its lock do
\* not parse.
C6_AlwaysUnknownLock ==
    (/\ pc = "done"
     /\ \E j \in 1..Len(ckb_tx[1].outputs) :
           /\ ckb_tx[1].outputs[j].type_ # <<>>
           /\ ~AcceptedAsRgbpp(ckb_tx[1].outputs[j])
           /\ ~AcceptedAsTimeLock(ckb_tx[1].outputs[j]))
        => result = "OutputCellWithUnknownLock"

\* The four bytes of a lock field read as a little-endian u32.
RedirectIndex(b) == b[1] + 256 * b[2] + 65536 * b[3] + 16777216 * b[4]

\* The unlocks whose serialization the bytes are.
UnlocksOf(bytes) == {u \in ResolverUnlocks : RGBPPUnlock_as_bytes(u) = bytes}

\* What parsing a lock field as an RGBPPUnlock gives.
ParsedAs(bytes) ==
    IF UnlocksOf(bytes) = {}
    THEN result = "BadRGBPPUnlock" /\ unlock_witness = <<>>
    ELSE result = "Ok" /\ unlock_witness \in {<<u>> : u \in UnlocksOf(bytes)}

\* C7 (as amended): a witness of group input 0 that cannot be loaded fails
\* with the loader's error, one without a lock field with ItemMissing; a lock
\* field of exactly 4 bytes is read as a little-endian index into the inputs
\* of the whole transaction, and the witness at that index is loaded: the
\* loader's error (IndexOutOfBound, Encoding) when it cannot be loaded,
\* ItemMissing when it has no lock field, BadRGBPPUnlock when its lock field
\* is no RGBPPUnlock (a 4-byte field there is not followed again), the unlock
\* otherwise; a lock field of any other length is parsed directly
\* (BadRGBPPUnlock on failure) and never redirected.
C7_UnlockResolution ==
    pc # "fetch_unlock" =>
        IF group_input >= Len(witnesses) THEN result = "IndexOutOfBound"
        ELSE IF ~witnesses[group_input + 1].wellformed THEN result = "Encoding"
        ELSE IF witnesses[group_input + 1].lock = <<>> THEN result = "ItemMissing"
        ELSE LET field == witnesses[group_input + 1].lock[1]
             IN  IF Len(field) # 4 THEN ParsedAs(field)
                 ELSE IF RedirectIndex(field) >= Len(witnesses)
                      THEN result = "IndexOutOfBound"
                 ELSE IF ~witnesses[RedirectIndex(field) + 1].wellformed
                      THEN result = "Encoding"
                 ELSE IF witnesses[RedirectIndex(field) + 1].lock = <<>>
                      THEN result = "ItemMissing"
                 ELSE ParsedAs(witnesses[RedirectIndex(field) + 1].lock[1])

\* The witness of the second input, the first of its group, holds index 0
\* and the first witness holds the unlock.
C7_Witness ==
    /\ pc # "fetch_unlock"
    /\ result = "Ok"
    /\ group_input = 1
    /\ witnesses[2].lock = <<to_le_bytes(0, 4)>>
    /\ unlock_witness # <<>>
    /\ witnesses[1].lock = <<RGBPPUnlock_as_bytes(unlock_witness[1])>>

\* C7 (as stated): with a lock field of 4 bytes, the resolver fails with
\* BadRGBPPUnlock when the witness the index points at is absent or its lock
\* field is absent or does not parse.
C7_RedirectBadUnlock ==
    (/\ pc # "fetch_unlock"
     /\ group_input < Len(witnesses)
     /\ witnesses[group_input + 1].wellformed
     /\ witnesses[group_input + 1].lock # <<>>
     /\ Len(witnesses[group_input + 1].lock[1]) = 4
     /\ LET r == RedirectIndex(witnesses[group_input + 1].lock[1])
        IN  \/ r >= Len(witnesses)
            \/ ~witnesses[r + 1].wellformed
            \/ witnesses[r + 1].lock = <<>>
            \/ UnlocksOf(witnesses[r + 1].lock[1]) = {})
        => result = "BadRGBPPUnlock"

\* The header of the unlock and the transaction of the run.
DeclaredVersion == unlock_witness[1].version

DeclaredInputLen == unlock_witness[1].extra_data.input_len

DeclaredOutputLen == unlock_witness[1].extra_data.output_len

\* The numbers of inputs and of (output, data) pairs the digest covers.
CoveredInputs == Min(DeclaredInputLen, Len(ckb_tx[1].inputs))

CoveredOutputs ==
    Min(DeclaredOutputLen, Min(Len(ckb_tx[1].outputs), Len(ckb_tx[1].outputs_data)))

\* The commitment is there, the version is 0 and both lengths are positive.
HeaderValid ==
    /\ btc_commitment # <<>>
    /\ DeclaredVersion = 0
    /\ DeclaredInputLen > 0
    /\ DeclaredOutputLen > 0

\* C5: when check_btc_tx_commitment ends Ok, no input after the first
\* input_len refers to a cell with a type script and no output after the
\* first output_len has one; and with the commitment extracted and a valid
\* header, such an input or output makes it end with CommitmentMismatch.
C5_Exclusivity ==
    pc = "done" =>
        /\ result = "Ok" =>
              /\ Len(input_type_hashes) = Len(ckb_tx[1].inputs)
              /\ \A i \in 1..Len(input_type_hashes) :
                    i > DeclaredInputLen => input_type_hashes[i] = <<>>
              /\ \A j \in 1..Len(ckb_tx[1].outputs) :
                    j > DeclaredOutputLen => ckb_tx[1].outputs[j].type_ = <<>>
        /\ (/\ HeaderValid
            /\ \/ \E i \in 1..Len(input_type_hashes) :
                     i > DeclaredInputLen /\ input_type_hashes[i] # <<>>
               \/ \E j \in 1..Len(ckb_tx[1].outputs) :
                     j > DeclaredOutputLen /\ ckb_tx[1].outputs[j].type_ # <<>>)
              => result = "CommitmentMismatch"

\* An accepted commitment that leaves an input and an output uncovered.
C5_Witness ==
    /\ pc = "done"
    /\ result = "Ok"
    /\ DeclaredInputLen < Len(ckb_tx[1].inputs)
    /\ DeclaredOutputLen < Len(ckb_tx[1].outputs)

\* The lock is one whose arguments the hasher normalizes.
IsNormalized(lock) ==
    \/ is_btc_time_lock(config[1], lock) /\ BTCTimeLock_verify(lock.args)
    \/ is_script_code_equal(script[1], lock) /\ RGBPPLock_verify(lock.args)

\* The arguments with their last HashLen bytes, the btc_txid, replaced.
WithTxid(args, txid) == SubSeq(args, 1, Len(args) - HashLen) \o txid

\* The output as it is hashed: the btc_txid of a normalized lock is zero.
AsHashed(out) ==
    IF IsNormalized(out.lock)
    THEN [out EXCEPT !.lock.args = WithTxid(out.lock.args, [i \in 1..HashLen |-> 0])]
    ELSE out

\* The digest of the transaction under the header of the run, written out:
\* the declared lengths, the inputs and the pairs there are.
ExpectedDigest(tx) ==
    LET ni == Min(DeclaredInputLen, Len(tx.inputs))
        no == Min(DeclaredOutputLen, Min(Len(tx.outputs), Len(tx.outputs_data)))
    IN  sha2(sha2(
            <<82, 71, 66, 43, 43>>
            \o <<DeclaredVersion % 256, DeclaredVersion \div 256>>
            \o <<DeclaredInputLen, DeclaredOutputLen>>
            \o Concat([i \in 1..ni |->
                   tx.inputs[i].previous_output.tx_hash
                   \o to_le_bytes(tx.inputs[i].previous_output.index, 4)])
            \o Concat([j \in 1..no |->
                   CellOutput_as_slice(AsHashed(tx.outputs[j]))
                   \o to_le_bytes(Len(tx.outputs_data[j]), 4)
                   \o tx.outputs_data[j]])))

\* The digest check_btc_tx_commitment computes for a transaction under the
\* header of the run; <<>> when the output loop ends with an error.
DigestOf(tx) ==
    LET s == gen_commitment_stream(config[1], script[1], tx, DeclaredVersion,
                                   DeclaredInputLen, DeclaredOutputLen)
    IN  IF s.err = "Ok" THEN <<double_sha256(s.bytes)>> ELSE <<>>

\* The outputs, inputs and data a transaction is varied with.
VariantOutputs ==
    CommitOutputKinds
    \cup { CellOutputOf(OtherLock, TRUE),
           CellOutputOf(RgbppLockOf(TxidC, 0), TRUE),
           CellOutputOf(RgbppLockOf(TxidB, 1), TRUE),
           CellOutputOf(TimeLockOf(BtcTimeLockCode, TxidC, MIN_BTC_TIME_LOCK_AFTER), TRUE),
           CellOutputOf(TimeLockOf(BtcTimeLockCode, TxidB, MIN_BTC_TIME_LOCK_AFTER + 1), TRUE),
           CellOutputOf([OtherLock EXCEPT !.args = <<8>>], TRUE),
           [CellOutputOf(OtherLock, TRUE) EXCEPT !.capacity = 1001] }

VariantInputs ==
    { CellInputOf(0), CellInputOf(1), CellInputOf(9),
      [CellInputOf(0) EXCEPT !.previous_output.tx_hash = Byte32_of(21)],
      [CellInputOf(0) EXCEPT !.since = 1] }

VariantData == {<<>>, <<7, 2>>, <<8, 2>>}

\* Two outputs that are the same but for the btc_txid of a normalized lock.
SameButTxid(a, b) ==
    /\ IsNormalized(a.lock)
    /\ IsNormalized(b.lock)
    /\ Len(a.lock.args) = Len(b.lock.args)
    /\ [a EXCEPT !.lock.args = WithTxid(a.lock.args, <<>>)]
           = [b EXCEPT !.lock.args = WithTxid(b.lock.args, <<>>)]

\* C9: the digest is the one of the stream in which a covered output with
\* the RGB++ lock or the time lock has the btc_txid of its arguments zero and
\* every other output is serialized as it is; so replacing that btc_txid
\* leaves the digest as it is, and replacing the out_index of an RGB++ lock,
\* the delay of a time lock, or the arguments of any other lock changes it.
C9_NormalizationInvariance ==
    pc = "compare" =>
        /\ commitment = <<ExpectedDigest(ckb_tx[1])>>
        /\ \A j \in 1..CoveredOutputs :
              LET out == ckb_tx[1].outputs[j]
              IN  /\ IsNormalized(out.lock) =>
                        \A txid \in {TxidA, TxidB, TxidC} :
                            DigestOf([ckb_tx[1] EXCEPT !.outputs[j].lock.args =
                                         WithTxid(out.lock.args, txid)]) = commitment
                  /\ (is_script_code_equal(script[1], out.lock)
                         /\ ~is_btc_time_lock(config[1], out.lock)) =>
                        DigestOf([ckb_tx[1] EXCEPT !.outputs[j].lock.args =
                                     to_le_bytes(from_le_bytes(SubSeq(out.lock.args, 1, 4)) + 1, 4)
                                     \o SubSeq(out.lock.args, 5, 4 + HashLen)]) # commitment
                  /\ is_btc_time_lock(config[1], out.lock) =>
                        DigestOf([ckb_tx[1] EXCEPT !.outputs[j].lock.args =
                                     BTCTimeLock_as_bytes(
                                         [BTCTimeLock_from_slice(out.lock.args)
                                             EXCEPT !.after = @ + 1])]) # commitment
                  /\ ~IsNormalized(out.lock) =>
                        DigestOf([ckb_tx[1] EXCEPT !.outputs[j].lock.args =
                                     WithTxid(out.lock.args \o Byte32_default, TxidC)])
                            # commitment

\* Two covered outputs, one with the RGB++ lock and one with the time lock,
\* have been hashed.
C9_Witness ==
    /\ pc = "compare"
    /\ CoveredOutputs = 2
    /\ \E j \in 1..2 :
          /\ is_script_code_equal(script[1], ckb_tx[1].outputs[j].lock)
          /\ RGBPPLock_verify(ckb_tx[1].outputs[j].lock.args)
    /\ \E j \in 1..2 :
          /\ is_btc_time_lock(config[1], ckb_tx[1].outputs[j].lock)
          /\ BTCTimeLock_verify(ckb_tx[1].outputs[j].lock.args)

\* C8 (as amended): the digest is a function of the header and the covered
\* items.  Replacing the previous output of a covered input, the data of a
\* covered output, or a covered output by one that differs in more than the
\* btc_txid of the arguments of an RGB++ or time lock changes the digest;
\* replacing the since of an input, or anything after the declared lengths,
\* leaves it as it is.
C8_Sensitivity ==
    pc = "compare" =>
        LET tx == ckb_tx[1]
        IN  /\ DigestOf(tx) = commitment
            /\ \A i \in 1..Len(tx.inputs), inp \in VariantInputs :
                  (DigestOf([tx EXCEPT !.inputs[i] = inp]) = commitment)
                      <=> \/ i > DeclaredInputLen
                          \/ inp.previous_output = tx.inputs[i].previous_output
            /\ \A j \in 1..Len(tx.outputs), d \in VariantData :
                  (DigestOf([tx EXCEPT !.outputs_data[j] = d]) = commitment)
                      <=> (j > DeclaredOutputLen \/ d = tx.outputs_data[j])
            /\ \A j \in 1..Len(tx.outputs), out \in VariantOutputs :
                  LET other == DigestOf([tx EXCEPT !.outputs[j] = out])
                  IN  IF j > DeclaredOutputLen THEN other = commitment
                      ELSE other # <<>> =>
                               (other = commitment
                                   <=> (out = tx.outputs[j] \/ SameButTxid(out, tx.outputs[j])))
            /\ Len(tx.inputs) >= DeclaredInputLen =>
                  \A inp \in VariantInputs :
                      DigestOf([tx EXCEPT !.inputs = Append(tx.inputs, inp)]) = commitment
            /\ Len(tx.outputs) >= DeclaredOutputLen =>
                  \A out \in VariantOutputs :
                      DigestOf([tx EXCEPT !.outputs = Append(tx.outputs, out),
                                          !.outputs_data = Append(tx.outputs_data, <<8, 2>>)])
                          = commitment

\* Two inputs and two outputs, the first of each covered and the second not.
C8_Witness ==
    /\ pc = "compare"
    /\ DeclaredInputLen = 1
    /\ DeclaredOutputLen = 1
    /\ Len(ckb_tx[1].inputs) = 2
    /\ Len(ckb_tx[1].outputs) = 2
    /\ IsNormalized(ckb_tx[1].outputs[1].lock)

\* C8 (as stated): replacing a covered output by a different one changes the
\* digest, whatever the bytes they differ in.
C8_EveryCoveredByte ==
    pc = "compare" =>
        \A j \in 1..CoveredOutputs, out \in VariantOutputs :
            LET other == DigestOf([ckb_tx[1] EXCEPT !.outputs[j] = out])
            IN  (out # ckb_tx[1].outputs[j] /\ other # <<>>) => other # commitment

\* C10: a declared length above the number of inputs or of pairs is no
\* reason to reject.  The exclusivity check of that side passes, the digest
\* is the one of the stream with the declared lengths as its two length
\* bytes and only the inputs and pairs there are, and with a valid header,
\* the other side exclusive and the covered arguments parsable, the result is
\* Ok exactly when that digest is the extracted commitment.
C10_DeclaredLengths ==
    LET tx == ckb_tx[1]
        overIn == DeclaredInputLen > Len(tx.inputs)
        overOut == DeclaredOutputLen > Min(Len(tx.outputs), Len(tx.outputs_data))
    IN  (overIn \/ overOut) =>
            /\ (overIn /\ evaluated # <<>> /\ Last(evaluated) = "inputs_committed")
                   => result = "running"
            /\ (overOut /\ evaluated # <<>> /\ Last(evaluated) = "outputs_committed")
                   => result = "running"
            /\ commitment # <<>> => commitment = <<ExpectedDigest(tx)>>
            /\ (/\ pc = "done"
                /\ HeaderValid
                /\ \A i \in 1..Len(input_type_hashes) :
                      i > DeclaredInputLen => input_type_hashes[i] = <<>>
                /\ \A j \in 1..Len(tx.outputs) :
                      j > DeclaredOutputLen => tx.outputs[j].type_ = <<>>
                /\ \A j \in 1..CoveredOutputs :
                      \/ IsNormalized(tx.outputs[j].lock)
                      \/ /\ ~is_btc_time_lock(config[1], tx.outputs[j].lock)
                         /\ ~is_script_code_equal(script[1], tx.outputs[j].lock))
                   => (result = "Ok" <=> btc_commitment = <<ExpectedDigest(tx)>>)

\* Accepted with both declared lengths above the numbers of inputs and
\* outputs.
C10_Witness ==
    /\ pc = "done"
    /\ result = "Ok"
    /\ DeclaredInputLen > Len(ckb_tx[1].inputs)
    /\ DeclaredOutputLen > Len(ckb_tx[1].outputs)
    /\ Len(ckb_tx[1].outputs) > 0

====
